---- MODULE Spec2Model ----
(***************************************************************************)
(* Model of Tumor_Synthesis/visualization/3Dgif.py: the 3D growth-animation *)
(* program (main, get_user_view, create_growth_animation,                   *)
(* capture_nii_3d_view, adjust_camera_settings and their helpers).          *)
(*                                                                          *)
(* Representation choices                                                   *)
(*  - A text (file name, line typed by the user) is a sequence of tokens.   *)
(*    A token is a digit "0".."9", a sign "-", a separator "." or ",", or   *)
(*    a word ("step_", "final", "tumor_", "nii", "gz", "all", ...).         *)
(*    Substring tests and splits of the code are done at token granularity. *)
(*  - Angles are whole degrees; sines and cosines are in thousandths.       *)
(*  - A float that may be +/-inf is a record [s, v]: s = 1 for inf, -1 for  *)
(*    -inf, 0 for the finite value v.                                       *)
(*  - A label volume is the set of labels it contains and, for each label, *)
(*    the mesh that marching cubes + smoothing produce for it (its number   *)
(*    of points and its bounding box).                                      *)
(***************************************************************************)
EXTENDS Integers, Sequences, FiniteSets, TLC

VARIABLES
    pc,               \* where the program is: which input it waits for, or a result
    listing,          \* os.listdir(labels_dir): the directory's names in listing order
    reverse_order,    \* main: result of get_user_order_preference
    angle_h,          \* horizontal angle (None until entered)
    angle_v,          \* vertical angle (None until entered)
    view_name,        \* name of the view (None until entered)
    sorted_files,     \* create_growth_animation: the ordered list
    file_i,           \* create_growth_animation: 1-based position of the for loop
    frames,           \* create_growth_animation: frames appended so far
    selected_labels,  \* create_growth_animation: None or the selected label list
    available_labels, \* capture_nii_3d_view: labels offered at the selection prompt
    capture_args,     \* arguments of the latest capture_nii_3d_view call (None before)
    capture_ret,      \* what the latest capture_nii_3d_view call returned (None before)
    calls,            \* history: selected_labels argument of each capture call of this run
    selections,       \* history: (file position, list) of each interactive selection of this run
    camera,           \* the camera of the latest rendered frame (None before)
    outputs,          \* animation files written so far
    err,              \* the exception that ended the program (None if none)
    images_dir,       \* tumor_gross2D_gif: the names in the CT directory
    labels_dir,       \* tumor_gross2D_gif: the names in the mask directory
    ct_files,         \* create_tumor_growth_gif: the sorted CT step files
    mask_files,       \* create_tumor_growth_gif: the sorted mask step files
    step_i,           \* create_tumor_growth_gif: 0-based position of the for loop
    rgb_frames,       \* create_tumor_growth_gif: frames appended so far
    fn_args,          \* arguments of a function studied on its own
    fn_ret            \* what that function returned (None before)

\* the variables of the other scripts, which 3Dgif.py never touches
others == <<images_dir, labels_dir, ct_files, mask_files, step_i, rgb_frames,
            fn_args, fn_ret>>

vars == <<pc, listing, reverse_order, angle_h, angle_v, view_name, sorted_files,
          file_i, frames, selected_labels, available_labels, capture_args,
          capture_ret, calls, selections, camera, outputs, err, others>>

None == "None"
\* an optional list: <<>> is Python's None, <<l>> is the list l
NoList == <<>>
Some(l) == <<l>>

-----------------------------------------------------------------------------
(* Bounds of the model *)

\* longest directory listing of the ordering specification
MaxFiles == 4
\* longest directory listing of the whole-program specification
MaxRunFiles == 3
\* longest selected-label list given to capture_nii_3d_view directly
MaxSel == 2

-----------------------------------------------------------------------------
(* Generic helpers *)

\* a reverse() that leaves the list as it is
Reverse_noop(s) == s

RECURSIVE Reverse(_)
\* list.reverse()
Reverse(s) == IF s = <<>> THEN <<>> ELSE Reverse(Tail(s)) \o <<Head(s)>>

Range(s) == {s[i] : i \in DOMAIN s}

\* all sequences over S of length at most n
RECURSIVE SeqsUpTo(_, _)
SeqsUpTo(S, n) ==
    IF n = 0 THEN {<<>>}
    ELSE LET shorter == SeqsUpTo(S, n - 1)
         IN  shorter \cup {Append(s, x) : s \in {t \in shorter : Len(t) = n - 1}, x \in S}

\* all duplicate-free sequences over S of length at most n
DistinctSeqs(S, n) ==
    {s \in SeqsUpTo(S, n) : \A i, j \in DOMAIN s : i # j => s[i] # s[j]}

-----------------------------------------------------------------------------
(* Extended floats: finite values and +/-inf *)

Fin(n) == [s |-> 0, v |-> n]
PosInf == [s |-> 1, v |-> 0]
NegInf == [s |-> -1, v |-> 0]
\* nan: every comparison with it is false
NaN == [s |-> 2, v |-> 0]

\* a <= b on floats
FloatLE(a, b) ==
    /\ a.s # 2
    /\ b.s # 2
    /\ \/ a.s < b.s
       \/ a.s = b.s /\ a.s # 0
       \/ a.s = 0 /\ b.s = 0 /\ a.v <= b.v

\* min(a, b), max(a, b) as Python computes them: the first argument wins a tie
FloatMin(a, b) == IF FloatLE(a, b) THEN a ELSE b
FloatMax(a, b) == IF FloatLE(b, a) THEN a ELSE b

-----------------------------------------------------------------------------
(* Texts and their parsing *)

DigitChars == <<"0", "1", "2", "3", "4", "5", "6", "7", "8", "9">>
Digits == Range(DigitChars)
DigitVal(c) == (CHOOSE k \in DOMAIN DigitChars : DigitChars[k] = c) - 1

RECURSIVE DigitsValue(_)
\* value of a non-empty run of decimal digits
DigitsValue(t) ==
    IF t = <<>> THEN 0
    ELSE DigitsValue(SubSeq(t, 1, Len(t) - 1)) * 10 + DigitVal(t[Len(t)])

\* int(text): an optional sign and at least one digit, else ValueError
IsIntText(t) ==
    LET body == IF t # <<>> /\ t[1] = "-" THEN Tail(t) ELSE t
    IN  body # <<>> /\ \A k \in DOMAIN body : body[k] \in Digits

IntValue(t) ==
    IF t[1] = "-" THEN 0 - DigitsValue(Tail(t)) ELSE DigitsValue(t)

\* position of the first token equal to tok, 0 if there is none
FirstIndex(t, tok) ==
    IF \E k \in DOMAIN t : t[k] = tok
    THEN CHOOSE k \in DOMAIN t : t[k] = tok /\ \A j \in 1..(k - 1) : t[j] # tok
    ELSE 0

RECURSIVE Split(_, _)
\* text.split(tok): the pieces between the occurrences of tok
Split(t, tok) ==
    LET k == FirstIndex(t, tok)
    IN  IF k = 0 THEN <<t>>
        ELSE <<SubSeq(t, 1, k - 1)>> \o Split(SubSeq(t, k + 1, Len(t)), tok)

\* tok in text
Contains(t, tok) == \E k \in DOMAIN t : t[k] = tok

\* text.endswith(suffix)
EndsWith(t, suffix) ==
    /\ Len(t) >= Len(suffix)
    /\ SubSeq(t, Len(t) - Len(suffix) + 1, Len(t)) = suffix

NiiGz == <<".", "nii", ".", "gz">>

-----------------------------------------------------------------------------
(* The file names a labels directory may hold.  visualize.py writes          *)
(* tumor_step_NNN.nii.gz and final_label_tumor.nii.gz; the other names are   *)
(* names a directory can hold as well.                                       *)

StepName(digits) == <<"tumor_", "step_">> \o digits \o NiiGz

F_step000 == StepName(<<"0", "0", "0">>)
F_step001 == StepName(<<"0", "0", "1">>)
F_step002 == StepName(<<"0", "0", "2">>)
\* tumor_step_1.nii.gz: the same step index as tumor_step_001.nii.gz
F_step1 == StepName(<<"1">>)
\* tumor_step_x.nii.gz: the index token is not a number
F_stepx == StepName(<<"x">>)
F_final == <<"final", "_label", "_tumor">> \o NiiGz
\* final_step_002.nii.gz: both a step file and a final file
F_finalstep == <<"final", "_", "step_", "0", "0", "2">> \o NiiGz
\* merged_labels.nii.gz: neither a step file nor a final file
F_merged == <<"merged", "_labels">> \o NiiGz
\* tumor_step_003.txt: not a volume file
F_notes == <<"tumor_", "step_", "0", "0", "3", ".", "txt">>

\* tumor_step_009.nii.gz: a file that cannot be read as a volume
F_corrupt == StepName(<<"0", "0", "9">>)

FileNames == {F_step000, F_step001, F_step002, F_step1, F_stepx, F_final,
              F_finalstep, F_merged, F_notes, F_corrupt}

-----------------------------------------------------------------------------
(* create_growth_animation: the ordered list *)

\* nii_files = [f for f in os.listdir(labels_dir) if f.endswith('.nii.gz')]
IsNii(f) == EndsWith(f, NiiGz)
nii_files(dir) == SelectSeq(dir, IsNii)

\* step_files = [f for f in nii_files if 'step_' in f]
IsStep(f) == Contains(f, "step_")
step_files(dir) == SelectSeq(nii_files(dir), IsStep)

\* step_str = f.split('step_')[1].split('.')[0]
step_str(f) == Split(Split(f, "step_")[2], ".")[1]

\* step_numbers: the files of step_files whose step_str int() accepts
HasStepNumber(f) == IsStep(f) /\ IsIntText(step_str(f))

\* a key that sorts the step files descending
SortKey_descending(f) ==
    IF HasStepNumber(f) THEN Fin(0 - IntValue(step_str(f))) ELSE PosInf

\* a key whose default puts the unparsed files first
SortKey_unparsed_first(f) ==
    IF HasStepNumber(f) THEN Fin(IntValue(step_str(f))) ELSE NegInf

\* key of the sort: step_numbers.get(f, float('inf'))
SortKey(f) == IF HasStepNumber(f) THEN Fin(IntValue(step_str(f))) ELSE PosInf

RECURSIVE InsertSorted(_, _)
\* insert x behind every element whose key is not greater (stable)
InsertSorted(s, x) ==
    IF s = <<>> THEN <<x>>
    ELSE IF FloatLE(SortKey(Head(s)), SortKey(x))
         THEN <<Head(s)>> \o InsertSorted(Tail(s), x)
         ELSE <<x>> \o s

RECURSIVE SortedByKey(_)
\* sorted(step_files, key=...): ascending key, equal keys keep their order
SortedByKey(s) ==
    IF s = <<>> THEN <<>>
    ELSE InsertSorted(SortedByKey(SubSeq(s, 1, Len(s) - 1)), s[Len(s)])

\* final_files = [f for f in nii_files if 'final' in f]
IsFinal(f) == Contains(f, "final")
final_files(dir) == SelectSeq(nii_files(dir), IsFinal)

\* lines 309-333: sort the step files, extend by the final files, reverse on request
OrderedFiles(dir, rev) ==
    LET forward == SortedByKey(step_files(dir)) \o final_files(dir)
    IN  IF rev THEN Reverse(forward) ELSE forward

-----------------------------------------------------------------------------
(* Labels *)

\* get_label_properties(): colors and opacities in tenths
get_label_properties ==
    [l \in 1..10 |->
        CASE l = 1  -> [name |-> "PDAC_lesion",     color |-> <<10, 0, 0>>,  opacity |-> 10]
          [] l = 2  -> [name |-> "Veins",           color |-> <<0, 0, 10>>,  opacity |-> 8]
          [] l = 3  -> [name |-> "Arteries",        color |-> <<10, 4, 4>>,  opacity |-> 8]
          [] l = 4  -> [name |-> "pancreas",        color |-> <<2, 8, 2>>,   opacity |-> 2]
          [] l = 5  -> [name |-> "pancreatic_duct", color |-> <<10, 10, 0>>, opacity |-> 9]
          [] l = 6  -> [name |-> "bile_duct",       color |-> <<0, 10, 10>>, opacity |-> 8]
          [] l = 7  -> [name |-> "pancreatic_cyst", color |-> <<8, 6, 10>>,  opacity |-> 7]
          [] l = 8  -> [name |-> "pancreatic_pnet", color |-> <<10, 6, 2>>,  opacity |-> 9]
          [] l = 9  -> [name |-> "postcava",        color |-> <<4, 0, 8>>,   opacity |-> 8]
          [] OTHER  -> [name |-> "superior_mesenteric_artery",
                        color |-> <<10, 8, 0>>, opacity |-> 10]]

RECURSIVE SortedSeq(_)
\* the elements of a set of integers in ascending order (np.unique)
SortedSeq(S) ==
    IF S = {} THEN <<>>
    ELSE LET m == CHOOSE x \in S : \A y \in S : x <= y
         IN  <<m>> \o SortedSeq(S \ {m})

\* a listing that only leaves out the background
show_available_labels_nofilter(unique_labels) ==
    LET Known(l) == l # 0
    IN  SelectSeq(SortedSeq(unique_labels), Known)

\* show_available_labels(unique_labels)
show_available_labels(unique_labels) ==
    LET Known(l) == l # 0 /\ l \in DOMAIN get_label_properties
    IN  SelectSeq(SortedSeq(unique_labels), Known)

-----------------------------------------------------------------------------
(* Label volumes.  mesh[l] is what process_nii_to_mesh returns for label l:  *)
(* its number of points and its bounds (xmin, xmax, ymin, ymax, zmin, zmax). *)

NoMesh == [points |-> 0, bounds |-> <<1, -1, 1, -1, 1, -1>>]
Organ == [points |-> 8, bounds |-> <<0, 10, 0, 10, 0, 10>>]
Vein == [points |-> 12, bounds |-> <<-2, 3, 0, 12, 1, 5>>]
Lesion(r) == [points |-> 8, bounds |-> <<5 - r, 5 + r, 5 - r, 5 + r, 4, 6>>]

Volume(labels, meshes) ==
    [labels |-> labels,
     mesh |-> [l \in labels |-> IF l \in DOMAIN meshes THEN meshes[l] ELSE NoMesh]]

\* only background
V_background == Volume({0}, <<>>)
\* the organ, no lesion yet
V_organ == Volume({0, 4}, 4 :> Organ)
\* a small lesion inside the organ
V_small == Volume({0, 1, 4}, 1 :> Lesion(1) @@ 4 :> Organ)
\* a larger lesion, the organ and a vein
V_large == Volume({0, 1, 2, 4}, 1 :> Lesion(3) @@ 2 :> Vein @@ 4 :> Organ)
\* a lesion alone
V_lesion == Volume({0, 1}, 1 :> Lesion(2))
\* label 1 is present but its surface has no points (a one-voxel-thick grid)
V_flat == Volume({0, 1}, <<>>)
\* the organ and a label that the table does not know
V_unknown == Volume({0, 4, 200}, 4 :> Organ @@ 200 :> Lesion(1))

\* the large lesion, the organ, a vein and a label that the table does not know
V_grown == Volume({0, 1, 2, 4, 200},
                  1 :> Lesion(3) @@ 2 :> Vein @@ 4 :> Organ @@ 200 :> Lesion(1))

Volumes == {V_background, V_organ, V_small, V_large, V_lesion, V_flat, V_unknown,
            V_grown}

\* line 157: itk.imread raises for a file it cannot read
Unreadable(f) == f = F_corrupt

\* itk.imread(nii_path): the content of each readable file of the directory
VolumeOf(f) ==
    CASE f = F_step000   -> V_organ
      [] f = F_step001   -> V_small
      [] f = F_step002   -> V_grown
      [] f = F_step1     -> V_background
      [] f = F_stepx     -> V_flat
      [] f = F_final     -> V_large
      [] f = F_finalstep -> V_lesion
      [] OTHER           -> V_unknown

-----------------------------------------------------------------------------
(* Camera *)

\* sin of the tabulated first-quadrant angles, in thousandths
SinTable ==
    0 :> 0 @@ 9 :> 156 @@ 10 :> 174 @@ 11 :> 191 @@ 30 :> 500 @@ 45 :> 707
      @@ 60 :> 866 @@ 79 :> 982 @@ 80 :> 985 @@ 81 :> 988 @@ 90 :> 1000

\* np.sin(np.radians(deg)) in thousandths
Sin(deg) ==
    LET d == deg % 360
    IN  IF d <= 90 THEN SinTable[d]
        ELSE IF d <= 180 THEN SinTable[180 - d]
        ELSE IF d <= 270 THEN 0 - SinTable[d - 180]
        ELSE 0 - SinTable[360 - d]

\* np.cos(np.radians(deg)) in thousandths
Cos(deg) == Sin(90 - deg)

Abs(x) == IF x < 0 THEN 0 - x ELSE x

\* the |angle_v| above which the view-up vector is switched
UpSwitchAngle == 80

\* the switch already at |angle_v| = 80
IsNearVertical_from80(v) == Abs(v) >= UpSwitchAngle

\* line 141: abs(angle_v) > 80, "near vertical view"
IsNearVertical(v) == Abs(v) > UpSwitchAngle

\* camera distance
distance == 2

\* adjust_camera_settings(camera, angle_h, angle_v): position in millionths,
\* view-up in thousandths
adjust_camera_settings(h, v) ==
    [position |-> <<distance * Sin(h) * Cos(v),
                    distance * Sin(v) * 1000,
                    distance * Cos(h) * Cos(v)>>,
     focal_point |-> <<0, 0, 0>>,
     view_up |-> IF IsNearVertical(v)
                 THEN <<0 - Sin(h), 0, 0 - Cos(h)>>
                 ELSE <<0, 1000, 0>>,
     parallel_projection |-> TRUE,
     parallel_scale |-> 1]

-----------------------------------------------------------------------------
(* capture_nii_3d_view *)

\* window_size=(800, 800): (width, height)
DefaultWindowSize == <<800, 800>>

\* bounds before the first actor (lines 196-198)
\* overall bounds that start from what the previous frame left behind
InitialBounds_carried ==
    IF frames # <<>> THEN capture_ret.bounds
    ELSE <<PosInf, NegInf, PosInf, NegInf, PosInf, NegInf>>

InitialBounds == <<PosInf, NegInf, PosInf, NegInf, PosInf, NegInf>>

\* overall bounds that only remember the latest actor
UpdateBounds_latest(bounds, actor_bounds) == [i \in 1..6 |-> Fin(actor_bounds[i])]

\* lines 243-248: widen the overall bounds by one actor's bounds
UpdateBounds(bounds, actor_bounds) ==
    [i \in 1..6 |-> IF i % 2 = 1
                    THEN FloatMin(bounds[i], Fin(actor_bounds[i]))
                    ELSE FloatMax(bounds[i], Fin(actor_bounds[i]))]

RECURSIVE BuildActors_break(_, _, _)
\* the loop leaving at the first label it skips (break instead of continue)
BuildActors_break(vol, labels, acc) ==
    IF labels = <<>> \/ acc.err # None THEN acc
    ELSE LET label_value == Head(labels)
             rest == Tail(labels)
         IN  IF label_value \notin vol.labels \/ vol.mesh[label_value].points = 0
             THEN acc
             ELSE LET props == get_label_properties[label_value]
                      actor == [label |-> label_value, name |-> props.name,
                                color |-> props.color, opacity |-> props.opacity,
                                bounds |-> vol.mesh[label_value].bounds]
                  IN  BuildActors_break(vol, rest,
                          [acc EXCEPT !.rendered_labels = Append(@, label_value),
                                      !.actors = Append(@, actor),
                                      !.bounds = UpdateBounds(@, actor.bounds)])

RECURSIVE BuildActors(_, _, _)
\* the loop of lines 205-248 over the remaining labels; acc holds bounds,
\* actors, rendered_labels and the exception raised, if any
BuildActors(vol, labels, acc) ==
    IF labels = <<>> \/ acc.err # None THEN acc
    ELSE LET label_value == Head(labels)
             rest == Tail(labels)
         IN  IF label_value \notin vol.labels
             THEN BuildActors(vol, rest, acc)
             ELSE IF vol.mesh[label_value].points = 0
             THEN BuildActors(vol, rest, acc)
             ELSE IF label_value \notin DOMAIN get_label_properties
             THEN [acc EXCEPT !.rendered_labels = Append(@, label_value),
                              !.err = "KeyError"]
             ELSE LET props == get_label_properties[label_value]
                      actor == [label |-> label_value, name |-> props.name,
                                color |-> props.color, opacity |-> props.opacity,
                                bounds |-> vol.mesh[label_value].bounds]
                  IN  BuildActors(vol, rest,
                          [acc EXCEPT !.rendered_labels = Append(@, label_value),
                                      !.actors = Append(@, actor),
                                      !.bounds = UpdateBounds(@, actor.bounds)])

Max3(a, b, c) == IF a >= b /\ a >= c THEN a ELSE IF b >= c THEN b ELSE c

\* zeros with width and height exchanged
ZerosFrame_transposed(window_size) ==
    [height |-> window_size[1], width |-> window_size[2], channels |-> 3,
     pixels |-> "zeros"]

\* np.zeros((window_size[1], window_size[0], 3), dtype=np.uint8)
ZerosFrame(window_size) ==
    [height |-> window_size[2], width |-> window_size[1], channels |-> 3,
     pixels |-> "zeros"]

\* lines 273-284: the rendered window as an array (height, width, components)
RenderedFrame(window_size) ==
    [height |-> window_size[2], width |-> window_size[1], channels |-> 3,
     pixels |-> "rendered"]

\* lines 260-263: actor.SetPosition(-center) and actor.SetScale(scale); the
\* position is in halves like center, the scale is 1/scale_den
PlaceActor(actor, center, span) ==
    [label |-> actor.label, name |-> actor.name, color |-> actor.color,
     opacity |-> actor.opacity, bounds |-> actor.bounds,
     position |-> <<0 - center[1], 0 - center[2], 0 - center[3]>>,
     scale_den |-> span]

\* the actor's bounds in the scene.  A vtkActor with origin 0 and no rotation
\* maps a point x to scale * x + position (scale first, then the position).
\* With position p/2 and scale 1/d: x/d + p/2 = (2x + p*d) / (2d).
ActorWorldBounds(actor) ==
    LET World(i) == 2 * actor.bounds[i] + actor.position[(i + 1) \div 2] * actor.scale_den
    IN  [num |-> <<World(1), World(2), World(3), World(4), World(5), World(6)>>,
         den |-> 2 * actor.scale_den]

\* the union of the scene bounds of the placed actors (all share one den)
SceneBounds(placed) ==
    LET Lo(i) == LET vals == {ActorWorldBounds(placed[k]).num[i] : k \in DOMAIN placed}
                 IN  CHOOSE x \in vals : \A y \in vals : x <= y
        Hi(i) == LET vals == {ActorWorldBounds(placed[k]).num[i] : k \in DOMAIN placed}
                 IN  CHOOSE x \in vals : \A y \in vals : x >= y
    IN  [num |-> <<Lo(1), Hi(2), Lo(3), Hi(4), Lo(5), Hi(6)>>,
         den |-> ActorWorldBounds(placed[1]).den]

\* line 271, renderer.ResetCamera(): vtkRenderer fits the active camera to
\* the bounds of the visible actors.  The focal point becomes the centre of
\* those bounds, the position moves along the unchanged view direction, the
\* parallel scale becomes the radius of the bounds (half their diagonal,
\* kept here as its square), and a view-up vector nearly parallel to the
\* view direction is replaced.  The projection mode is not touched.
ResetCamera(cam, placed) ==
    IF placed = <<>>
    THEN \* nothing visible: the camera is left as it is
         [position |-> [from |-> cam.focal_point, den |-> 1, along |-> cam.position],
          focal_point |-> [num |-> cam.focal_point, den |-> 1],
          view_up |-> cam.view_up,
          parallel_projection |-> cam.parallel_projection,
          parallel_scale_sq |-> [num |-> cam.parallel_scale * cam.parallel_scale,
                                 den |-> 1]]
    ELSE
    LET sb == SceneBounds(placed)
        dot == cam.view_up[1] * (cam.position[1] \div 1000)
                 + cam.view_up[2] * (cam.position[2] \div 1000)
                 + cam.view_up[3] * (cam.position[3] \div 1000)
        Sq(x) == x * x
        mid == <<sb.num[1] + sb.num[2], sb.num[3] + sb.num[4], sb.num[5] + sb.num[6]>>
    IN  [position |-> [from |-> mid, den |-> 2 * sb.den, along |-> cam.position],
         focal_point |-> [num |-> mid, den |-> 2 * sb.den],
         view_up |-> IF Abs(dot) > 999 * distance * 1000
                     THEN <<0 - cam.view_up[3], cam.view_up[1], cam.view_up[2]>>
                     ELSE cam.view_up,
         parallel_projection |-> cam.parallel_projection,
         parallel_scale_sq |-> [num |-> Sq(sb.num[2] - sb.num[1]) + Sq(sb.num[4] - sb.num[3])
                                          + Sq(sb.num[6] - sb.num[5]),
                                den |-> 4 * sb.den * sb.den]]

\* handing back the labels that were rendered instead of the selected ones
ReturnedLabels_rendered(labels, rendered_labels) == rendered_labels

\* line 289: the label list handed back to the caller
ReturnedLabels(labels, rendered_labels) == labels

\* capture_nii_3d_view from line 166 on, selected_labels being a list.
\* kind says how the call ends: "tuple" (line 289), "array" (line 253) or
\* "raise"; center is in halves (num/2) and scale is 1/den; camera is the
\* camera the frame is rendered with.
capture_nii_3d_view(vol, h, v, labels, window_size) ==
    LET built == BuildActors(vol, labels,
                     [bounds |-> InitialBounds, actors |-> <<>>,
                      rendered_labels |-> <<>>, err |-> None])
        b == built.bounds
        base == [kind |-> "raise", frame |-> None, labels |-> None,
                 rendered_labels |-> built.rendered_labels, bounds |-> b,
                 actors |-> built.actors, center |-> None, scale |-> None,
                 camera |-> None, err |-> built.err]
    IN  IF built.err # None THEN base
        ELSE IF b[1] = PosInf
        THEN [base EXCEPT !.kind = "array", !.frame = ZerosFrame(window_size)]
        ELSE LET span == Max3(b[2].v - b[1].v, b[4].v - b[3].v, b[6].v - b[5].v)
                 center == <<b[2].v + b[1].v, b[4].v + b[3].v, b[6].v + b[5].v>>
                 placed == [k \in DOMAIN built.actors |->
                               PlaceActor(built.actors[k], center, span)]
             IN  IF span = 0 THEN [base EXCEPT !.err = "ZeroDivisionError"]
                 ELSE [base EXCEPT
                         !.kind = "tuple",
                         !.frame = RenderedFrame(window_size),
                         !.labels = ReturnedLabels(labels, built.rendered_labels),
                         !.center = center,
                         !.scale = span,
                         !.actors = placed,
                         !.camera = ResetCamera(adjust_camera_settings(h, v), placed)]

-----------------------------------------------------------------------------
(* What the user may type *)

OrderInputs == {"1", "2", "3"}
AngleInputsH == {<<"-", "1", "8", "1">>, <<"-", "1", "8", "0">>, <<"9", "0">>,
                 <<"1", "8", "1">>, <<"a", "b", "c">>, <<"nan">>}
AngleInputsV == {<<"-", "9", "1">>, <<"-", "9", "0">>, <<"0">>, <<"9", "0">>,
                 <<"9", "1">>, <<>>, <<"inf">>}
ViewNameInputs == {"", "front"}
LabelInputs == {<<"all">>, <<"1">>, <<"4">>, <<"1", ",", "4">>, <<"4", ",", "1">>,
                <<"2", ",", "7">>, <<"1", ",">>, <<"x">>, <<>>}
AnotherInputs == {"y", "n"}

\* float(text): an integer text, nan or inf; anything else is a ValueError
IsFloatText(t) == IsIntText(t) \/ t = <<"nan">> \/ t = <<"inf">>
FloatValue(t) ==
    IF t = <<"nan">> THEN NaN ELSE IF t = <<"inf">> THEN PosInf ELSE Fin(IntValue(t))

\* the limits get_user_view checks
MaxAngleH == 180
MaxAngleV == 90

\* a range check that forgets the lower limit
InRange_upper_only(x, limit) == FloatLE(x, Fin(limit))

\* -limit <= x <= limit
InRange(x, limit) == FloatLE(Fin(0 - limit), x) /\ FloatLE(x, Fin(limit))

\* get_user_label_selection for one line of input: <<list>> when the
\* function returns list, <<>> when it asks again
get_user_label_selection(available, selection) ==
    IF selection = <<"all">> THEN Some(available)
    ELSE LET parts == Split(selection, ",")
         IN  IF \E k \in DOMAIN parts : ~IsIntText(parts[k]) THEN NoList
             ELSE LET selected == [k \in DOMAIN parts |-> IntValue(parts[k])]
                      IsAvailable(x) == x \in Range(available)
                      valid_labels == SelectSeq(selected, IsAvailable)
                  IN  IF valid_labels = <<>> THEN NoList ELSE Some(valid_labels)

-----------------------------------------------------------------------------
(* The program: main and what it calls *)

\* output_path: one file per order and view name
\* nothing of the other scripts is running
OthersIdle ==
    /\ images_dir = {}
    /\ labels_dir = {}
    /\ ct_files = <<>>
    /\ mask_files = <<>>
    /\ step_i = 0
    /\ rgb_frames = <<>>
    /\ fn_args = None
    /\ fn_ret = None

OutputPath(rev, name) == <<IF rev THEN "tumor_shrink" ELSE "tumor_growth", name>>

Init ==
    /\ pc = "validate"
    /\ listing \in DistinctSeqs(FileNames, MaxRunFiles)
    /\ reverse_order = None
    /\ angle_h = None
    /\ angle_v = None
    /\ view_name = None
    /\ sorted_files = <<>>
    /\ file_i = 0
    /\ frames = <<>>
    /\ selected_labels = NoList
    /\ available_labels = <<>>
    /\ capture_args = None
    /\ capture_ret = None
    /\ calls = <<>>
    /\ selections = <<>>
    /\ camera = None
    /\ outputs = {}
    /\ err = None
    /\ OthersIdle

\* validate_paths: no volume file in the directory is a FileNotFoundError
validate_paths ==
    /\ UNCHANGED others
    /\ pc = "validate"
    /\ IF nii_files(listing) = <<>>
       THEN pc' = "crashed" /\ err' = "FileNotFoundError"
       ELSE pc' = "order" /\ err' = err
    /\ UNCHANGED <<listing, reverse_order, angle_h, angle_v, view_name, sorted_files,
                   file_i, frames, selected_labels, available_labels, capture_args,
                   capture_ret, calls, selections, camera, outputs>>

\* get_user_order_preference: one line of input
get_user_order_preference(choice) ==
    /\ UNCHANGED others
    /\ pc = "order"
    /\ IF choice = "1" THEN reverse_order' = FALSE /\ pc' = "angle_h"
       ELSE IF choice = "2" THEN reverse_order' = TRUE /\ pc' = "angle_h"
       ELSE UNCHANGED <<reverse_order, pc>>
    /\ UNCHANGED <<listing, angle_h, angle_v, view_name, sorted_files,
                   file_i, frames, selected_labels, available_labels, capture_args,
                   capture_ret, calls, selections, camera, outputs, err>>

\* get_user_view, first loop: one line of input for the horizontal angle
get_user_view_h(text) ==
    /\ UNCHANGED others
    /\ pc = "angle_h"
    /\ IF IsFloatText(text) /\ InRange(FloatValue(text), MaxAngleH)
       THEN angle_h' = FloatValue(text).v /\ pc' = "angle_v"
       ELSE UNCHANGED <<angle_h, pc>>
    /\ UNCHANGED <<listing, reverse_order, angle_v, view_name, sorted_files,
                   file_i, frames, selected_labels, available_labels, capture_args,
                   capture_ret, calls, selections, camera, outputs, err>>

\* get_user_view, second loop: one line of input for the vertical angle
get_user_view_v(text) ==
    /\ UNCHANGED others
    /\ pc = "angle_v"
    /\ IF IsFloatText(text) /\ InRange(FloatValue(text), MaxAngleV)
       THEN angle_v' = FloatValue(text).v /\ pc' = "view_name"
       ELSE UNCHANGED <<angle_v, pc>>
    /\ UNCHANGED <<listing, reverse_order, angle_h, view_name, sorted_files,
                   file_i, frames, selected_labels, available_labels, capture_args,
                   capture_ret, calls, selections, camera, outputs, err>>

\* get_user_view, third loop: one line of input for the view name; with a
\* name the function returns and main calls create_growth_animation
get_user_view_name(name) ==
    /\ UNCHANGED others
    /\ pc = "view_name"
    /\ IF name # "" THEN view_name' = name /\ pc' = "animate"
       ELSE UNCHANGED <<view_name, pc>>
    /\ UNCHANGED <<listing, reverse_order, angle_h, angle_v, sorted_files,
                   file_i, frames, selected_labels, available_labels, capture_args,
                   capture_ret, calls, selections, camera, outputs, err>>

\* create_growth_animation, lines 302-341: list, order, start the loop
create_growth_animation ==
    /\ UNCHANGED others
    /\ pc = "animate"
    /\ IF nii_files(listing) = <<>>
       THEN pc' = "another" /\ UNCHANGED <<sorted_files, file_i>>
       ELSE /\ sorted_files' = OrderedFiles(listing, reverse_order)
            /\ file_i' = 1
            /\ pc' = "loop"
    /\ frames' = <<>>
    /\ selected_labels' = NoList
    /\ calls' = <<>>
    /\ selections' = <<>>
    /\ UNCHANGED <<listing, reverse_order, angle_h, angle_v, view_name,
                   available_labels, capture_args, capture_ret, camera, outputs, err>>

\* capture_nii_3d_view from line 166 on and lines 347-351 of the caller: the
\* returned value is unpacked into two names and the frame is appended
RenderFile(labels) ==
    \E ret \in {capture_nii_3d_view(VolumeOf(sorted_files[file_i]), angle_h, angle_v,
                                     labels, DefaultWindowSize)} :
        /\ capture_ret' = ret
        /\ capture_args' = [nii_path |-> sorted_files[file_i],
                            volume |-> VolumeOf(sorted_files[file_i]),
                            angle_h |-> angle_h, angle_v |-> angle_v,
                            selected_labels |-> labels,
                            window_size |-> DefaultWindowSize]
        /\ IF ret.kind = "tuple"
           THEN /\ frames' = Append(frames, ret.frame)
                /\ selected_labels' = Some(ret.labels)
                /\ camera' = ret.camera
                /\ file_i' = file_i + 1
                /\ pc' = "loop"
                /\ err' = err
           ELSE /\ pc' = "crashed"
                \* an array of 800 rows does not unpack into two names
                /\ err' = IF ret.kind = "array" THEN "ValueError" ELSE ret.err
                /\ selected_labels' = Some(labels)
                /\ UNCHANGED <<frames, camera, file_i>>

\* the file is read as if nothing had happened and the loop goes on
ReadError_skip ==
    /\ pc' = "loop"
    /\ file_i' = file_i + 1
    /\ UNCHANGED <<frames, selected_labels, available_labels, capture_args,
                   capture_ret, camera, selections, err>>

\* line 157 raising: nothing catches the exception in capture_nii_3d_view,
\* create_growth_animation or main, the process ends
ReadError ==
    /\ pc' = "crashed"
    /\ err' = "RuntimeError"
    /\ UNCHANGED <<frames, selected_labels, available_labels, capture_args,
                   capture_ret, camera, file_i, selections>>

\* one iteration of the for loop of create_growth_animation up to the point
\* where capture_nii_3d_view waits for the label selection, or to its end
ProcessFile ==
    /\ UNCHANGED others
    /\ pc = "loop"
    /\ file_i <= Len(sorted_files)
    /\ calls' = Append(calls, selected_labels)
    /\ IF Unreadable(sorted_files[file_i])
       THEN ReadError
       ELSE IF selected_labels = NoList
       THEN /\ available_labels' =
                   show_available_labels(VolumeOf(sorted_files[file_i]).labels)
            /\ pc' = "select"
            /\ UNCHANGED <<frames, selected_labels, capture_args, capture_ret,
                           camera, file_i, err, selections>>
       ELSE /\ RenderFile(selected_labels[1])
            /\ UNCHANGED <<available_labels, selections>>
    /\ UNCHANGED <<listing, reverse_order, angle_h, angle_v, view_name, sorted_files,
                   outputs>>

\* get_user_label_selection: one line of input; with a valid choice the
\* function returns and capture_nii_3d_view runs to its end
SelectLabels(selection) ==
    /\ UNCHANGED others
    /\ pc = "select"
    /\ LET choice == get_user_label_selection(available_labels, selection)
       IN  IF choice = NoList
           THEN UNCHANGED <<frames, selected_labels, capture_args, capture_ret,
                            camera, file_i, err, selections, pc>>
           ELSE /\ selections' = Append(selections, <<file_i, choice[1]>>)
                /\ RenderFile(choice[1])
    /\ UNCHANGED <<listing, reverse_order, angle_h, angle_v, view_name, sorted_files,
                   available_labels, calls, outputs>>

\* writing whatever frames there are so far, before the loop has ended
SaveAnimation_partial ==
    /\ UNCHANGED others
    /\ pc = "loop"
    /\ frames # <<>>
    /\ outputs' = {o \in outputs : o.path # OutputPath(reverse_order, view_name)}
                     \cup {[path |-> OutputPath(reverse_order, view_name),
                            frames |-> frames]}
    /\ pc' = "another"
    /\ UNCHANGED <<listing, reverse_order, angle_h, angle_v, view_name, sorted_files,
                   file_i, frames, selected_labels, available_labels, capture_args,
                   capture_ret, calls, selections, camera, err>>

\* lines 353-361 and the return to main: write the animation if there are frames
SaveAnimation ==
    /\ UNCHANGED others
    /\ pc = "loop"
    /\ file_i > Len(sorted_files)
    /\ outputs' = IF frames # <<>>
                  THEN {o \in outputs : o.path # OutputPath(reverse_order, view_name)}
                         \cup {[path |-> OutputPath(reverse_order, view_name),
                                frames |-> frames]}
                  ELSE outputs
    /\ pc' = "another"
    /\ UNCHANGED <<listing, reverse_order, angle_h, angle_v, view_name, sorted_files,
                   file_i, frames, selected_labels, available_labels, capture_args,
                   capture_ret, calls, selections, camera, err>>

\* main, lines 453-455: another view or the end.  With "y" get_user_view and
\* then create_growth_animation are entered anew: their locals start unset.
AnotherView(choice) ==
    /\ UNCHANGED others
    /\ pc = "another"
    /\ IF choice = "y"
       THEN /\ pc' = "angle_h"
            /\ angle_h' = None
            /\ angle_v' = None
            /\ view_name' = None
            /\ sorted_files' = <<>>
            /\ file_i' = 0
            /\ frames' = <<>>
            /\ selected_labels' = NoList
            /\ available_labels' = <<>>
            /\ capture_args' = None
            /\ capture_ret' = None
            /\ calls' = <<>>
            /\ selections' = <<>>
            /\ camera' = None
       ELSE /\ pc' = "done"
            /\ UNCHANGED <<angle_h, angle_v, view_name, sorted_files, file_i, frames,
                           selected_labels, available_labels, capture_args,
                           capture_ret, calls, selections, camera>>
    /\ UNCHANGED <<listing, reverse_order, outputs, err>>

Next ==
    \/ validate_paths
    \/ \E choice \in OrderInputs : get_user_order_preference(choice)
    \/ \E text \in AngleInputsH : get_user_view_h(text)
    \/ \E text \in AngleInputsV : get_user_view_v(text)
    \/ \E name \in ViewNameInputs : get_user_view_name(name)
    \/ create_growth_animation
    \/ ProcessFile
    \/ \E selection \in LabelInputs : SelectLabels(selection)
    \/ SaveAnimation
    \/ \E choice \in AnotherInputs : AnotherView(choice)

Spec == Init /\ [][Next]_vars

-----------------------------------------------------------------------------
(* create_growth_animation on its own: every directory of up to MaxFiles     *)
(* names, both orders, the default angles of the signature                   *)

InitOrder ==
    /\ pc = "animate"
    /\ listing \in DistinctSeqs(FileNames, MaxFiles)
    /\ reverse_order \in BOOLEAN
    /\ angle_h = 0
    /\ angle_v = 0
    /\ view_name = "front"
    /\ sorted_files = <<>>
    /\ file_i = 0
    /\ frames = <<>>
    /\ selected_labels = NoList
    /\ available_labels = <<>>
    /\ capture_args = None
    /\ capture_ret = None
    /\ calls = <<>>
    /\ selections = <<>>
    /\ camera = None
    /\ outputs = {}
    /\ err = None
    /\ OthersIdle

NextOrder == create_growth_animation

SpecOrder == InitOrder /\ [][NextOrder]_vars

-----------------------------------------------------------------------------
(* capture_nii_3d_view on its own, called with a label list *)

\* labels of the table that the model selects from
SelectableLabels == {1, 2, 4, 7}
WindowSizes == {DefaultWindowSize, <<640, 480>>}

InitCapture ==
    /\ pc = "capture"
    /\ capture_args \in [nii_path : {<<"volume">> \o NiiGz},
                         volume : Volumes,
                         angle_h : {0, 90},
                         angle_v : {0, 90},
                         selected_labels : SeqsUpTo(SelectableLabels, MaxSel),
                         window_size : WindowSizes]
    /\ listing = <<>>
    /\ reverse_order = FALSE
    /\ angle_h = None
    /\ angle_v = None
    /\ view_name = None
    /\ sorted_files = <<>>
    /\ file_i = 0
    /\ frames = <<>>
    /\ selected_labels = NoList
    /\ available_labels = <<>>
    /\ capture_ret = None
    /\ calls = <<>>
    /\ selections = <<>>
    /\ camera = None
    /\ outputs = {}
    /\ err = None
    /\ OthersIdle

CaptureCall ==
    /\ UNCHANGED others
    /\ pc = "capture"
    /\ LET a == capture_args
           ret == capture_nii_3d_view(a.volume, a.angle_h, a.angle_v,
                                      a.selected_labels, a.window_size)
       IN  /\ capture_ret' = ret
           /\ camera' = IF ret.kind = "tuple" THEN ret.camera ELSE camera
           /\ err' = IF ret.kind = "raise" THEN ret.err ELSE err
    /\ pc' = "captured"
    /\ UNCHANGED <<listing, reverse_order, angle_h, angle_v, view_name, sorted_files,
                   file_i, frames, selected_labels, available_labels, capture_args,
                   calls, selections, outputs>>

NextCapture == CaptureCall

SpecCapture == InitCapture /\ [][NextCapture]_vars

-----------------------------------------------------------------------------
(* adjust_camera_settings on its own, over the angles get_user_view admits *)

CameraAnglesH == {-180, -150, -120, -90, -60, -45, -30, 0, 30, 45, 60, 90, 120, 150, 180}
CameraAnglesV == {-90, -81, -80, -79, -60, 0, 60, 79, 80, 81, 90}

InitCamera ==
    /\ pc = "camera"
    /\ angle_h \in CameraAnglesH
    /\ angle_v \in CameraAnglesV
    /\ listing = <<>>
    /\ reverse_order = FALSE
    /\ view_name = None
    /\ sorted_files = <<>>
    /\ file_i = 0
    /\ frames = <<>>
    /\ selected_labels = NoList
    /\ available_labels = <<>>
    /\ capture_args = None
    /\ capture_ret = None
    /\ calls = <<>>
    /\ selections = <<>>
    /\ camera = None
    /\ outputs = {}
    /\ err = None
    /\ OthersIdle

CameraCall ==
    /\ UNCHANGED others
    /\ pc = "camera"
    /\ camera' = adjust_camera_settings(angle_h, angle_v)
    /\ pc' = "camera_set"
    /\ UNCHANGED <<listing, reverse_order, angle_h, angle_v, view_name, sorted_files,
                   file_i, frames, selected_labels, available_labels, capture_args,
                   capture_ret, calls, selections, outputs, err>>

NextCamera == CameraCall

SpecCamera == InitCamera /\ [][NextCamera]_vars

-----------------------------------------------------------------------------
(* tumor_gross2D_gif.py: the 2D growth animation                             *)

\* the characters of a token, as code points
CharsOf(tok) ==
    CASE tok = "tumor_" -> <<116, 117, 109, 111, 114, 95>>
      [] tok = "step_"  -> <<115, 116, 101, 112, 95>>
      [] tok = "final"  -> <<102, 105, 110, 97, 108>>
      [] tok = "_label" -> <<95, 108, 97, 98, 101, 108>>
      [] tok = "_tumor" -> <<95, 116, 117, 109, 111, 114>>
      [] tok = "nii"    -> <<110, 105, 105>>
      [] tok = "gz"     -> <<103, 122>>
      [] tok = "."      -> <<46>>
      [] tok = "x"      -> <<120>>
      [] OTHER          -> <<48 + DigitVal(tok)>>

RECURSIVE TextOf(_)
\* a name as the string of its characters
TextOf(name) == IF name = <<>> THEN <<>> ELSE CharsOf(Head(name)) \o TextOf(Tail(name))

RECURSIVE StrLess(_, _)
\* a < b for two strings: character by character, a proper prefix first
StrLess(a, b) ==
    IF b = <<>> THEN FALSE
    ELSE IF a = <<>> THEN TRUE
    ELSE IF Head(a) # Head(b) THEN Head(a) < Head(b)
    ELSE StrLess(Tail(a), Tail(b))

\* a comparison of the step numbers instead of the names
NameLess_numeric(f, g) == IntValue(step_str(f)) < IntValue(step_str(g))

\* the order sorted() puts two file names in
NameLess(f, g) == StrLess(TextOf(f), TextOf(g))

RECURSIVE sorted(_)
\* sorted(names) for the distinct names of a directory
sorted(S) ==
    IF S = {} THEN <<>>
    ELSE LET first == CHOOSE f \in S : \A g \in S \ {f} : NameLess(f, g)
         IN  <<first>> \o sorted(S \ {first})

\* f.startswith('tumor_step_')
StartsWithTumorStep(f) == Len(f) >= 2 /\ f[1] = "tumor_" /\ f[2] = "step_"

\* tumor_step_999.nii.gz and tumor_step_1000.nii.gz, as visualize.py names
\* the steps 999 and 1000 with its format {step_num:03d}
F_step999 == StepName(<<"9", "9", "9">>)
F_step1000 == StepName(<<"1", "0", "0", "0">>)

\* what the two directories may hold
GifNames == {F_step000, F_step001, F_step002, F_step999, F_step1000, F_stepx, F_final}

\* a volume as an array indexed [z][y][x], 1-based here
Shape(a) == <<Len(a), Len(a[1]), Len(a[1][1])>>

\* the voxels of slice i (1-based) of array a along the axis: mask_array[i],
\* mask_array[:, i, :] or mask_array[:, :, i]
SliceCoords(a, axis, i) ==
    LET k == IF axis = 0 THEN 1 ELSE IF axis = 1 THEN 2 ELSE 3
    IN  {c \in (1..Shape(a)[1]) \X (1..Shape(a)[2]) \X (1..Shape(a)[3]) : c[k] = i}

\* tumor_areas: np.sum(slice == 1) for every slice along the axis
tumor_areas(mask_array, axis) ==
    LET k == IF axis = 0 THEN 1 ELSE IF axis = 1 THEN 2 ELSE 3
    IN  [i \in 1..Shape(mask_array)[k] |->
            Cardinality({c \in SliceCoords(mask_array, axis, i) :
                            mask_array[c[1]][c[2]][c[3]] = 1})]

\* the last position of the largest value
argmax_last(areas) ==
    (CHOOSE i \in DOMAIN areas :
        /\ \A j \in DOMAIN areas : areas[j] <= areas[i]
        /\ \A j \in DOMAIN areas : j > i => areas[j] < areas[i]) - 1

\* np.argmax: the first position (0-based) of the largest value
argmax(areas) ==
    (CHOOSE i \in DOMAIN areas :
        /\ \A j \in DOMAIN areas : areas[j] <= areas[i]
        /\ \A j \in DOMAIN areas : j < i => areas[j] < areas[i]) - 1

\* find_largest_tumor_slice(ct_array, mask_array, axis)
find_largest_tumor_slice(ct_array, mask_array, axis) ==
    argmax(tumor_areas(mask_array, axis))

\* sitk.ReadImage + GetArrayFromImage of a mask file: a 2 x 2 x 2 volume with
\* pancreas (2) and a tumor (1) that grows with the step
MaskArrayOf(f) ==
    CASE f = F_step000  -> << <<<<0, 2>>, <<2, 2>>>>, <<<<0, 0>>, <<2, 0>>>> >>
      [] f = F_step001  -> << <<<<0, 2>>, <<2, 2>>>>, <<<<0, 1>>, <<2, 0>>>> >>
      [] f = F_step002  -> << <<<<0, 2>>, <<2, 1>>>>, <<<<0, 1>>, <<2, 1>>>> >>
      [] OTHER          -> << <<<<1, 1>>, <<2, 1>>>>, <<<<1, 1>>, <<2, 1>>>> >>

\* sitk.ReadImage + GetArrayFromImage of a CT file: intensities on the same grid
CtArrayOf(f) == << <<<<40, 40>>, <<40, 40>>>>, <<<<40, 40>>, <<40, 40>>>> >>

\* the largest number of names in a directory
MaxDirFiles == 3

Dirs == {d \in SUBSET GifNames : Cardinality(d) <= MaxDirFiles}

\* the view of main's loop over the three directions
Axes == {0, 1, 2}

InitGif ==
    /\ pc = "gif_validate"
    /\ images_dir \in Dirs
    /\ labels_dir \in Dirs
    /\ fn_args \in [axis : Axes]
    /\ ct_files = <<>>
    /\ mask_files = <<>>
    /\ step_i = 0
    /\ rgb_frames = <<>>
    /\ fn_ret = None
    /\ listing = <<>>
    /\ reverse_order = FALSE
    /\ angle_h = None
    /\ angle_v = None
    /\ view_name = None
    /\ sorted_files = <<>>
    /\ file_i = 0
    /\ frames = <<>>
    /\ selected_labels = NoList
    /\ available_labels = <<>>
    /\ capture_args = None
    /\ capture_ret = None
    /\ calls = <<>>
    /\ selections = <<>>
    /\ camera = None
    /\ outputs = {}
    /\ err = None

\* the variables of 3Dgif.py
gif3d == <<listing, reverse_order, angle_h, angle_v, view_name, sorted_files,
           file_i, frames, selected_labels, available_labels, capture_args,
           capture_ret, calls, selections, camera>>

\* validate_paths of tumor_gross2D_gif.py, lines 50-55
validate_paths_2d ==
    /\ pc = "gif_validate"
    /\ IF {f \in images_dir : StartsWithTumorStep(f)} = {}
          \/ {f \in labels_dir : StartsWithTumorStep(f)} = {}
       THEN pc' = "crashed" /\ err' = "FileNotFoundError"
       ELSE pc' = "gif_collect" /\ err' = err
    /\ UNCHANGED <<images_dir, labels_dir, ct_files, mask_files, step_i, rgb_frames,
                   fn_args, fn_ret, outputs, gif3d>>

\* create_tumor_growth_gif, lines 137-148: list, sort, cut to the shorter list
CollectStepFiles ==
    /\ pc = "gif_collect"
    /\ LET ct == sorted({f \in images_dir : StartsWithTumorStep(f)})
           mask == sorted({f \in labels_dir : StartsWithTumorStep(f)})
           min_count == IF Len(ct) <= Len(mask) THEN Len(ct) ELSE Len(mask)
       IN  /\ ct_files' = SubSeq(ct, 1, min_count)
           /\ mask_files' = SubSeq(mask, 1, min_count)
    /\ step_i' = 0
    /\ rgb_frames' = <<>>
    /\ pc' = "gif_loop"
    /\ UNCHANGED <<images_dir, labels_dir, fn_args, fn_ret, outputs, err, gif3d>>

\* one iteration of the loop of lines 150-187: the frame of the pair at
\* position step_i
BuildFrame ==
    /\ pc = "gif_loop"
    /\ step_i < Len(ct_files)
    /\ LET ct_file == ct_files[step_i + 1]
           mask_file == mask_files[step_i + 1]
           mask_array == MaskArrayOf(mask_file)
           max_slice_idx == find_largest_tumor_slice(CtArrayOf(ct_file), mask_array,
                                                     fn_args.axis)
           step_num == IF IsIntText(step_str(ct_file))
                       THEN IntValue(step_str(ct_file)) ELSE step_i
       IN  rgb_frames' = Append(rgb_frames,
                             [ct_file |-> ct_file, mask_file |-> mask_file,
                              max_slice_idx |-> max_slice_idx,
                              axis |-> fn_args.axis, step_num |-> step_num])
    /\ step_i' = step_i + 1
    /\ UNCHANGED <<pc, images_dir, labels_dir, ct_files, mask_files, fn_args, fn_ret,
                   outputs, err, gif3d>>

\* lines 190-197: save the frames
SaveGif ==
    /\ pc = "gif_loop"
    /\ step_i = Len(ct_files)
    /\ IF rgb_frames = <<>>
       THEN pc' = "crashed" /\ err' = "IndexError" /\ outputs' = outputs
       ELSE /\ pc' = "gif_saved"
            /\ err' = err
            /\ outputs' = outputs \cup {[axis |-> fn_args.axis, frames |-> rgb_frames]}
    /\ UNCHANGED <<images_dir, labels_dir, ct_files, mask_files, step_i, rgb_frames,
                   fn_args, fn_ret, gif3d>>

NextGif ==
    \/ validate_paths_2d
    \/ CollectStepFiles
    \/ BuildFrame
    \/ SaveGif

SpecGif == InitGif /\ [][NextGif]_vars

-----------------------------------------------------------------------------
(* single-nii-visualize.py: get_pancreas_z_bounds and the crop of nii_to_gif *)

\* the label of the pancreas in these masks
PancreasLabel == 2

\* the context window around the pancreas, in slices
margin == 5

SetMin(S) == CHOOSE x \in S : \A y \in S : x <= y
SetMax(S) == CHOOSE x \in S : \A y \in S : x >= y

Min2(a, b) == IF a <= b THEN a ELSE b
Max2(a, b) == IF a >= b THEN a ELSE b

\* np.where(np.any(mask_array == 2, axis=(1, 2)))[0]: the 0-based indices of
\* the z slices that hold a pancreas voxel
z_indices(mask_array) ==
    {z \in 0..(Len(mask_array) - 1) :
        \E y \in DOMAIN mask_array[z + 1] : \E x \in DOMAIN mask_array[z + 1][y] :
            mask_array[z + 1][y][x] = PancreasLabel}

\* an upper bound that stops on the last pancreas slice's margin, one short
get_pancreas_z_bounds_short(mask_array) ==
    LET zs == z_indices(mask_array)
    IN  IF zs = {} THEN NoList
        ELSE Some(<<Max2(0, SetMin(zs) - margin),
                    Min2(Len(mask_array), SetMax(zs) + margin)>>)

\* get_pancreas_z_bounds(mask_array): None or (z_min, z_max)
get_pancreas_z_bounds(mask_array) ==
    LET zs == z_indices(mask_array)
    IN  IF zs = {} THEN NoList
        ELSE Some(<<Max2(0, SetMin(zs) - margin),
                    Min2(Len(mask_array), SetMax(zs) + margin + 1)>>)

\* array[z_min:z_max] for 0 <= z_min <= z_max <= depth
SliceZ(array, z_min, z_max) == SubSeq(array, z_min + 1, z_max)

\* the largest depth of a one-column mask and of a two-column mask
MaxDepth == 8
MaxBlockDepth == 3

\* all arrays of a shape over a set of values
ArraysOf(d, h, w, values) == [1..d -> [1..h -> [1..w -> values]]]

\* masks: one column of up to MaxDepth voxels, or two columns side by side
\* (along y or along x) of up to MaxBlockDepth voxels
CropMasks ==
    UNION {ArraysOf(d, 1, 1, {0, 1, 2}) : d \in 1..MaxDepth}
      \cup UNION {ArraysOf(d, 2, 1, {0, 1, 2}) : d \in 1..MaxBlockDepth}
      \cup UNION {ArraysOf(d, 1, 2, {0, 1, 2}) : d \in 1..MaxBlockDepth}

InitCrop ==
    /\ pc = "crop"
    /\ fn_args \in [mask_array : CropMasks]
    /\ fn_ret = None
    /\ images_dir = {}
    /\ labels_dir = {}
    /\ ct_files = <<>>
    /\ mask_files = <<>>
    /\ step_i = 0
    /\ rgb_frames = <<>>
    /\ listing = <<>>
    /\ reverse_order = FALSE
    /\ angle_h = None
    /\ angle_v = None
    /\ view_name = None
    /\ sorted_files = <<>>
    /\ file_i = 0
    /\ frames = <<>>
    /\ selected_labels = NoList
    /\ available_labels = <<>>
    /\ capture_args = None
    /\ capture_ret = None
    /\ calls = <<>>
    /\ selections = <<>>
    /\ camera = None
    /\ outputs = {}
    /\ err = None

\* nii_to_gif, lines 42-47: the bounds and, if there are any, the crop
CropCall ==
    /\ pc = "crop"
    /\ \E z_bounds \in {get_pancreas_z_bounds(fn_args.mask_array)} :
           fn_ret' = [z_bounds |-> z_bounds,
                      mask_array |-> IF z_bounds # NoList
                                     THEN SliceZ(fn_args.mask_array,
                                                 z_bounds[1][1], z_bounds[1][2])
                                     ELSE fn_args.mask_array]
    /\ pc' = "cropped"
    /\ UNCHANGED <<images_dir, labels_dir, ct_files, mask_files, step_i, rgb_frames,
                   fn_args, outputs, err, gif3d>>

NextCrop == CropCall

SpecCrop == InitCrop /\ [][NextCrop]_vars

-----------------------------------------------------------------------------
(* tumor_gross2D_gif.py: find_largest_tumor_slice on its own                 *)

\* get_slice_from_volume(volume, mask, slice_idx, axis), the mask part:
\* mask[slice_idx], mask[:, slice_idx, :] or mask[:, :, slice_idx]
get_slice_from_volume(mask, slice_idx, axis) ==
    IF axis = 0 THEN mask[slice_idx + 1]
    ELSE IF axis = 1
    THEN [z \in 1..Shape(mask)[1] |-> mask[z][slice_idx + 1]]
    ELSE [z \in 1..Shape(mask)[1] |->
             [y \in 1..Shape(mask)[2] |-> mask[z][y][slice_idx + 1]]]

\* the largest number of voxels of a mask
MaxVoxels == 6

\* masks of every shape of at most MaxVoxels voxels, labels 0, 1, 2
SliceMasks ==
    UNION {ArraysOf(s[1], s[2], s[3], {0, 1, 2}) :
              s \in {t \in (1..MaxVoxels) \X (1..MaxVoxels) \X (1..MaxVoxels) :
                        t[1] * t[2] * t[3] <= MaxVoxels}}

InitSlice ==
    /\ pc = "slice"
    /\ fn_args \in [mask_array : SliceMasks, axis : Axes]
    /\ fn_ret = None
    /\ images_dir = {}
    /\ labels_dir = {}
    /\ ct_files = <<>>
    /\ mask_files = <<>>
    /\ step_i = 0
    /\ rgb_frames = <<>>
    /\ listing = <<>>
    /\ reverse_order = FALSE
    /\ angle_h = None
    /\ angle_v = None
    /\ view_name = None
    /\ sorted_files = <<>>
    /\ file_i = 0
    /\ frames = <<>>
    /\ selected_labels = NoList
    /\ available_labels = <<>>
    /\ capture_args = None
    /\ capture_ret = None
    /\ calls = <<>>
    /\ selections = <<>>
    /\ camera = None
    /\ outputs = {}
    /\ err = None

\* create_tumor_growth_gif, lines 161-165: the index and the slice at it
SliceCall ==
    /\ pc = "slice"
    /\ \E max_slice_idx \in {find_largest_tumor_slice(fn_args.mask_array,
                                                      fn_args.mask_array,
                                                      fn_args.axis)} :
           fn_ret' = [max_slice_idx |-> max_slice_idx,
                      mask_slice |-> get_slice_from_volume(fn_args.mask_array,
                                                           max_slice_idx, fn_args.axis)]
    /\ pc' = "sliced"
    /\ UNCHANGED <<images_dir, labels_dir, ct_files, mask_files, step_i, rgb_frames,
                   fn_args, outputs, err, gif3d>>

NextSlice == SliceCall

SpecSlice == InitSlice /\ [][NextSlice]_vars

-----------------------------------------------------------------------------
(* merge_segmentations.py *)

SegName(word) == <<word>> \o NiiGz

\* segmentation_map, in the order of the dict literal: (file name, label value)
segmentation_map ==
    << <<SegName("pancreatic_pdac"), 1>>,
       <<SegName("veins"), 2>>,
       <<SegName("aorta"), 3>>,
       <<SegName("celiac_aa"), 3>>,
       <<SegName("superior_mesenteric_artery"), 10>>,
       <<SegName("pancreas"), 4>>,
       <<SegName("pancreatic_duct"), 5>>,
       <<SegName("common_bile_duct"), 6>>,
       <<SegName("pancreatic_cyst"), 7>>,
       <<SegName("pancreatic_pnet"), 8>>,
       <<SegName("postcava"), 9>> >>

\* the names a segmentations directory may hold: those of the map and one
\* that the map does not know
SegNames == {segmentation_map[k][1] : k \in DOMAIN segmentation_map}
                \cup {SegName("liver")}

\* np.zeros(shape): an all-zero array of the CT's shape
Zeros(shape) == [z \in 1..shape[1] |-> [y \in 1..shape[2] |-> [x \in 1..shape[3] |-> 0]]]

\* an assignment that leaves the voxels alone that already carry a label
AssignWhere_keep(label_array, seg_array, label_value) ==
    [z \in DOMAIN label_array |-> [y \in DOMAIN label_array[z] |->
        [x \in DOMAIN label_array[z][y] |->
            IF seg_array[z][y][x] > 0 /\ label_array[z][y][x] = 0
            THEN label_value ELSE label_array[z][y][x]]]]

\* label_array[seg_array > 0] = label_value
AssignWhere(label_array, seg_array, label_value) ==
    [z \in DOMAIN label_array |-> [y \in DOMAIN label_array[z] |->
        [x \in DOMAIN label_array[z][y] |->
            IF seg_array[z][y][x] > 0 THEN label_value ELSE label_array[z][y][x]]]]

RECURSIVE MergeLoop(_, _, _)
\* the loop of lines 51-64 over the remaining entries of the map; input_dir
\* maps each file of the directory to its array
MergeLoop(input_dir, entries, acc) ==
    IF entries = <<>> THEN acc
    ELSE LET seg_file == Head(entries)[1]
             label_value == Head(entries)[2]
         IN  IF seg_file \in DOMAIN input_dir
             THEN MergeLoop(input_dir, Tail(entries),
                      [label_array |-> AssignWhere(acc.label_array, input_dir[seg_file],
                                                   label_value),
                       seg_files_found |-> Append(acc.seg_files_found, seg_file)])
             ELSE MergeLoop(input_dir, Tail(entries), acc)

\* merge_segmentations from line 45 on: the merged array and the files found
merge_segmentations(input_dir, ct_shape) ==
    MergeLoop(input_dir, segmentation_map,
              [label_array |-> Zeros(ct_shape), seg_files_found |-> <<>>])

\* the largest number of files in the segmentations directory
MaxSegFiles == 2

\* the shape of the CT and of every segmentation of it
SegShape == <<1, 1, 2>>

\* uint8 segmentations: 0 outside, 1 or 2 inside
SegArrays == ArraysOf(SegShape[1], SegShape[2], SegShape[3], {0, 1, 2})

SegDirs ==
    UNION {[S -> SegArrays] :
              S \in {T \in SUBSET SegNames : Cardinality(T) <= MaxSegFiles}}

InitMerge ==
    /\ pc = "merge"
    /\ fn_args \in [input_dir : SegDirs, ct_shape : {SegShape}]
    /\ fn_ret = None
    /\ images_dir = {}
    /\ labels_dir = {}
    /\ ct_files = <<>>
    /\ mask_files = <<>>
    /\ step_i = 0
    /\ rgb_frames = <<>>
    /\ listing = <<>>
    /\ reverse_order = FALSE
    /\ angle_h = None
    /\ angle_v = None
    /\ view_name = None
    /\ sorted_files = <<>>
    /\ file_i = 0
    /\ frames = <<>>
    /\ selected_labels = NoList
    /\ available_labels = <<>>
    /\ capture_args = None
    /\ capture_ret = None
    /\ calls = <<>>
    /\ selections = <<>>
    /\ camera = None
    /\ outputs = {}
    /\ err = None

\* merge_segmentations, lines 45-75: merge and write the label file
MergeCall ==
    /\ pc = "merge"
    /\ \E merged \in {merge_segmentations(fn_args.input_dir, fn_args.ct_shape)} :
           /\ fn_ret' = merged
           /\ outputs' = outputs \cup {[path |-> <<"merged", "_labels">> \o NiiGz,
                                         label_array |-> merged.label_array]}
    /\ pc' = "merged"
    /\ UNCHANGED <<images_dir, labels_dir, ct_files, mask_files, step_i, rgb_frames,
                   fn_args, err, gif3d>>

NextMerge == MergeCall

SpecMerge == InitMerge /\ [][NextMerge]_vars

-----------------------------------------------------------------------------
(* Properties *)

\* number of positions of list s that hold x
Occurrences(s, x) == Cardinality({i \in DOMAIN s : s[i] = x})

\* the volume files of the directory, as a set
NiiSet == {f \in Range(listing) : IsNii(f)}
StepSet == {f \in NiiSet : IsStep(f)}
FinalSet == {f \in NiiSet : IsFinal(f)}

\* the ordered list exists: create_growth_animation has reached its loop
Ordered == pc \in {"loop", "select"}

\* C1: every file of the ordered list contributes exactly one frame, in list
\* order; a volume whose scene is empty contributes an all-black frame and
\* does not end the run, so a finished loop has as many frames as files.
C1_FramePerFile ==
    /\ Ordered => Len(frames) = file_i - 1
    /\ ~(pc = "crashed" /\ err = "ValueError")
    /\ (pc \in {"another", "done"} /\ sorted_files # <<>>)
           => Len(frames) = Len(sorted_files)

\* C2: in forward mode the ordered list is the step files, ascending in their
\* step index, followed by the final files; the files step_002, step_000,
\* final, step_001 come out as step_000, step_001, step_002, final.
C2_ForwardOrder ==
    (Ordered /\ reverse_order = FALSE) =>
        LET n == Len(step_files(listing))
        IN  /\ Len(sorted_files) = n + Len(final_files(listing))
            /\ \A i \in DOMAIN sorted_files :
                   IF i <= n THEN sorted_files[i] \in StepSet
                   ELSE sorted_files[i] \in FinalSet
            /\ \A f \in StepSet : \E i \in 1..n : sorted_files[i] = f
            /\ \A f \in FinalSet :
                   \E i \in (n + 1)..Len(sorted_files) : sorted_files[i] = f
            /\ \A i, j \in 1..n :
                   (/\ i < j
                    /\ HasStepNumber(sorted_files[i])
                    /\ HasStepNumber(sorted_files[j]))
                   => IntValue(step_str(sorted_files[i]))
                          <= IntValue(step_str(sorted_files[j]))
            /\ Range(listing) = {F_step002, F_step000, F_final, F_step001}
                   => sorted_files = <<F_step000, F_step001, F_step002, F_final>>

\* C2 witness: the four files of the example, listed out of order, ordered forward
C2_Witness ==
    /\ Ordered
    /\ reverse_order = FALSE
    /\ listing = <<F_step002, F_step000, F_final, F_step001>>
    /\ sorted_files = <<F_step000, F_step001, F_step002, F_final>>

\* C3: the list processed in reverse mode is the forward list of the same
\* directory read backwards, element by element: final files first, step
\* indices descending; read backwards again it is the forward list.
C3_ReverseOfForward ==
    (Ordered /\ reverse_order = TRUE) =>
        LET forward == OrderedFiles(listing, FALSE)
            n == Len(forward)
            nf == Len(final_files(listing))
        IN  /\ Len(sorted_files) = n
            /\ \A i \in 1..n : sorted_files[i] = forward[n + 1 - i]
            /\ \A i \in 1..n : forward[i] = sorted_files[n + 1 - i]
            /\ \A i \in 1..nf : sorted_files[i] \in FinalSet
            /\ \A i, j \in (nf + 1)..n :
                   (/\ i < j
                    /\ HasStepNumber(sorted_files[i])
                    /\ HasStepNumber(sorted_files[j]))
                   => IntValue(step_str(sorted_files[i]))
                          >= IntValue(step_str(sorted_files[j]))

\* C3 witness: the example directory in reverse mode
C3_Witness ==
    /\ Ordered
    /\ reverse_order = TRUE
    /\ listing = <<F_step002, F_step000, F_final, F_step001>>
    /\ sorted_files = <<F_final, F_step002, F_step001, F_step000>>

\* the step files whose index token is not a number
UnparsedSet == {f \in StepSet : ~HasStepNumber(f)}

\* C4: in forward mode a step file whose index token is not a number is in the
\* ordered list, behind every step file with a parsed index and ahead of the
\* final files.
C4_UnparsedAfterParsed ==
    (Ordered /\ reverse_order = FALSE) =>
        \A u \in UnparsedSet :
            \E i \in DOMAIN sorted_files :
                /\ sorted_files[i] = u
                /\ \A p \in StepSet \ UnparsedSet :
                       \E j \in 1..(i - 1) : sorted_files[j] = p
                /\ \A j \in 1..(i - 1) : sorted_files[j] \in StepSet
                /\ \A f \in FinalSet :
                       \E j \in (i + 1)..Len(sorted_files) : sorted_files[j] = f

\* C4 witness: the unparsed step file is listed before a parsed one and after
\* a final one, and ends up between them
C4_Witness ==
    /\ Ordered
    /\ reverse_order = FALSE
    /\ listing = <<F_final, F_stepx, F_step001>>
    /\ sorted_files = <<F_step001, F_stepx, F_final>>

\* C5: every volume file of the directory is in the ordered list exactly once.
C5_Partition ==
    Ordered => \A f \in NiiSet : Occurrences(sorted_files, f) = 1

\* C6: within one call of create_growth_animation the label selection is made
\* exactly once, while the first file of the ordered list is processed, and
\* every later capture call is given exactly the list chosen then.
C6_SelectOnce ==
    /\ Len(selections) <= 1
    /\ \A k \in DOMAIN selections : selections[k][1] = 1
    /\ Len(frames) >= 1 => Len(selections) = 1
    /\ \A i \in DOMAIN calls :
           IF i = 1 THEN calls[i] = NoList
           ELSE Len(selections) = 1 /\ calls[i] = Some(selections[1][2])
    /\ (Ordered /\ file_i >= 2) =>
           Len(selections) = 1 /\ selected_labels = Some(selections[1][2])

\* C6 witness: three files processed in reverse mode with a selection of two
\* labels of which a later volume lacks one
C6_Witness ==
    /\ pc = "loop"
    /\ reverse_order = TRUE
    /\ Len(calls) = 3
    /\ Len(frames) = 3
    /\ Len(selections) = 1
    /\ Len(selections[1][2]) = 2
    /\ \E l \in Range(selections[1][2]) : l \notin capture_args.volume.labels

\* the selected labels of a call that the volume holds with a mesh of points
PresentLabels(a) ==
    LET HasMesh(l) == l \in a.volume.labels /\ a.volume.mesh[l].points > 0
    IN  SelectSeq(a.selected_labels, HasMesh)

\* C7: capture_nii_3d_view skips a selected label that the volume lacks, or
\* whose mesh has no points, without an error; the labels it renders are
\* exactly the selected labels present with a mesh of points, in order.
C7_RenderedArePresent ==
    pc = "captured" =>
        /\ capture_ret.kind # "raise"
        /\ capture_ret.err = None
        /\ capture_ret.rendered_labels = PresentLabels(capture_args)
        /\ Len(capture_ret.actors) = Len(capture_ret.rendered_labels)
        /\ \A k \in DOMAIN capture_ret.actors :
               capture_ret.actors[k].label = capture_ret.rendered_labels[k]

\* C7 witness: the first selected label is absent and the second is rendered
C7_Witness ==
    /\ pc = "captured"
    /\ Len(capture_args.selected_labels) = 2
    /\ capture_args.selected_labels[1] \notin capture_args.volume.labels
    /\ capture_ret.rendered_labels = <<capture_args.selected_labels[2]>>

\* C8: when no selected label yields a mesh with points, capture_nii_3d_view
\* raises nothing and returns an all-zero frame of three channels whose
\* height and width are those of the window, as for a rendered frame.
C8_EmptySceneFrame ==
    (pc = "captured" /\ PresentLabels(capture_args) = <<>>) =>
        /\ capture_ret.kind = "array"
        /\ capture_ret.err = None
        /\ capture_ret.frame.pixels = "zeros"
        /\ capture_ret.frame.channels = 3
        /\ capture_ret.frame.width = capture_args.window_size[1]
        /\ capture_ret.frame.height = capture_args.window_size[2]
        /\ capture_ret.frame.width = RenderedFrame(capture_args.window_size).width
        /\ capture_ret.frame.height = RenderedFrame(capture_args.window_size).height

\* C8 witness: an empty scene in a window that is not square, from a label
\* whose mesh has no points
C8_Witness ==
    /\ pc = "captured"
    /\ capture_args.window_size = <<640, 480>>
    /\ capture_args.volume = V_flat
    /\ capture_args.selected_labels = <<1>>
    /\ capture_ret.kind = "array"

\* C9: the view-up vector is (0,1,0) for every vertical angle from -80 to 80
\* degrees inclusive and (-sin h, 0, -cos h) for every other one; the
\* vertical angle alone decides which.
C9_ViewUp ==
    pc = "camera_set" =>
        /\ (-80 <= angle_v /\ angle_v <= 80) => camera.view_up = <<0, 1000, 0>>
        /\ (angle_v < -80 \/ angle_v > 80)
               => camera.view_up = <<0 - Sin(angle_h), 0, 0 - Cos(angle_h)>>
        /\ (angle_v = 90 /\ angle_h = 90) => camera.view_up = <<-1000, 0, 0>>
        /\ (angle_v = -90 /\ angle_h = 0) => camera.view_up = <<0, 0, -1000>>
        /\ (angle_v = 81 /\ angle_h = 30) => camera.view_up = <<-500, 0, -866>>

\* C9 witness: the camera set at exactly 80 degrees, with a horizontal angle
\* for which the two view-up vectors differ
C9_Witness ==
    /\ pc = "camera_set"
    /\ Abs(angle_v) = 80
    /\ angle_h = 30
    /\ camera.view_up = <<0, 1000, 0>>

\* C10: every angle pair that reaches create_growth_animation and the camera
\* lies within -180..180 and -90..90.
C10_AnglesInDomain ==
    /\ pc \in {"animate", "loop", "select", "another", "done"}
           => /\ -180 <= angle_h /\ angle_h <= 180
              /\ -90 <= angle_v /\ angle_v <= 90
    /\ pc \in {"loop", "another", "done"} /\ Len(frames) >= 1
           => /\ -180 <= capture_args.angle_h /\ capture_args.angle_h <= 180
              /\ -90 <= capture_args.angle_v /\ capture_args.angle_v <= 90

\* C10 witness: the limits themselves are accepted and reach the renderer
C10_Witness ==
    /\ pc = "loop"
    /\ Len(frames) >= 1
    /\ capture_args.angle_h = -180
    /\ capture_args.angle_v = 90

\* the smallest and the largest element of a non-empty set of integers

\* the union of the boxes of a non-empty list of actors
UnionBox(actors) ==
    [i \in 1..6 |->
        IF i % 2 = 1 THEN SetMin({actors[k].bounds[i] : k \in DOMAIN actors})
        ELSE SetMax({actors[k].bounds[i] : k \in DOMAIN actors})]

\* C11: after the actor loop the overall bounds are the union of the boxes of
\* the surviving actors: each min component the least, each max component the
\* greatest over those actors, whatever the order of the labels.
C11_BoundsAreUnion ==
    pc = "captured" =>
        IF capture_ret.actors = <<>>
        THEN capture_ret.bounds = InitialBounds
        ELSE \A i \in 1..6 :
                 capture_ret.bounds[i] = Fin(UnionBox(capture_ret.actors)[i])

\* C11 witness: the vein and the organ, neither box inside the other, the
\* organ first
C11_Witness ==
    /\ pc = "captured"
    /\ capture_args.volume = V_large
    /\ capture_args.selected_labels = <<4, 2>>
    /\ capture_ret.bounds = <<Fin(-2), Fin(10), Fin(0), Fin(12), Fin(0), Fin(10)>>

\* C12: for a non-empty scene center is the midpoint of the overall box, scale
\* is 1 / (its largest span), and every actor is placed so that a point x
\* goes to scale * (x - center): the union box of the placed actors is centred
\* on the origin and its largest span is exactly 1.
C12_UnitScene ==
    (pc = "captured" /\ capture_ret.kind = "tuple") =>
        LET box == UnionBox(capture_ret.actors)
            sb == SceneBounds(capture_ret.actors)
        IN  /\ capture_ret.center = <<box[1] + box[2], box[3] + box[4], box[5] + box[6]>>
            /\ capture_ret.scale = Max3(box[2] - box[1], box[4] - box[3], box[6] - box[5])
            /\ \A a \in 1..3 : sb.num[2 * a - 1] + sb.num[2 * a] = 0
            /\ Max3(sb.num[2] - sb.num[1], sb.num[4] - sb.num[3], sb.num[6] - sb.num[5])
                   = sb.den

\* C16: every non-empty frame is rendered with a camera in parallel
\* projection whose parallel scale is 1.0 and whose focal point is the origin,
\* whatever the angles and the scene.
C16_FixedOrthographicCamera ==
    (pc = "captured" /\ capture_ret.kind = "tuple") =>
        /\ capture_ret.camera.parallel_projection = TRUE
        /\ capture_ret.camera.parallel_scale_sq.num = capture_ret.camera.parallel_scale_sq.den
        /\ capture_ret.camera.focal_point.num = <<0, 0, 0>>

\* C13: the center and the scale of a frame depend only on the actors that
\* survive in this frame's volume: the bounds are rebuilt from nothing on every
\* call, so after any number of earlier frames the overall box is the union of
\* the boxes of this volume's own meshes and center and scale are its midpoint
\* and 1 / (its largest span).
C13_FreshNormalisation ==
    (pc \in {"loop", "another", "done"} /\ frames # <<>>) =>
        LET vol == capture_args.volume
            actors == capture_ret.actors
            box == UnionBox(actors)
        IN  /\ actors # <<>>
            /\ \A k \in DOMAIN actors :
                  /\ actors[k].label \in Range(capture_args.selected_labels)
                  /\ actors[k].bounds = vol.mesh[actors[k].label].bounds
            /\ \A i \in 1..6 : capture_ret.bounds[i] = Fin(box[i])
            /\ capture_ret.center = <<box[1] + box[2], box[3] + box[4], box[5] + box[6]>>
            /\ capture_ret.scale = Max3(box[2] - box[1], box[4] - box[3], box[6] - box[5])

\* a second frame whose volume (the lesion alone) has a smaller box than the
\* first frame's (the organ)
C13_Witness ==
    /\ pc = "loop"
    /\ Len(frames) = 2
    /\ VolumeOf(sorted_files[1]) = V_small
    /\ capture_args.volume = V_lesion
    /\ capture_args.selected_labels = <<1, 4>>
    /\ capture_ret.center = <<10, 10, 10>>
    /\ capture_ret.scale = 4

\* C14: the animation file is written only after every file of the ordered
\* list has been rendered, and then with one frame per file; a step in which
\* rendering fails writes nothing, so no partial animation exists.
C14_AnimationAfterAllFrames ==
    [][/\ outputs' # outputs =>
            /\ pc = "loop"
            /\ file_i > Len(sorted_files)
            /\ Len(frames) = Len(sorted_files)
            /\ [path |-> OutputPath(reverse_order, view_name), frames |-> frames]
                   \in outputs'
       /\ pc' = "crashed" => outputs' = outputs]_vars

\* an animation of three frames has been written
C14_Witness ==
    /\ pc = "another"
    /\ Len(sorted_files) = 3
    /\ Len(frames) = 3
    /\ \E o \in outputs : o.frames = frames

\* C15: an unreadable volume ends the run.  Once the loop has called
\* capture_nii_3d_view for an unreadable file the run is in its crashed state
\* with the read error, the loop index stays on that file (no retry, no later
\* file), no frame exists for it, and the run never reaches the point where
\* main reports the animation as saved.
C15_ReadErrorIsFatal ==
    \A i \in DOMAIN sorted_files :
        Unreadable(sorted_files[i]) =>
            /\ file_i <= i
            /\ Len(calls) <= i
            /\ Len(frames) < i
            /\ pc \notin {"another", "done"}
            /\ Len(calls) = i => (pc = "crashed" /\ err = "RuntimeError")

\* the second of three files is unreadable and the run has ended on it
C15_Witness ==
    /\ pc = "crashed"
    /\ err = "RuntimeError"
    /\ Len(sorted_files) = 3
    /\ Unreadable(sorted_files[2])
    /\ file_i = 2
    /\ Len(calls) = 2
    /\ Len(frames) = 1

\* C19: every actor of every frame carries a label that is a nonzero key of
\* the label table, and the lookup of a label's properties never raises,
\* whatever other labels the volumes hold.
C19_ActorsHaveKnownLabels ==
    /\ err # "KeyError"
    /\ (pc \in {"loop", "another", "done", "crashed"} /\ selected_labels # NoList) =>
           \A k \in DOMAIN capture_ret.actors :
               /\ capture_ret.actors[k].label # 0
               /\ capture_ret.actors[k].label \in DOMAIN get_label_properties

\* a later volume holds label 200, which the table does not know, and its
\* frame has been rendered from the labels chosen on the first volume
C19_Witness ==
    /\ pc = "loop"
    /\ Len(frames) = 2
    /\ 200 \in capture_args.volume.labels
    /\ 200 \notin VolumeOf(sorted_files[1]).labels
    /\ capture_ret.actors # <<>>

\* C18: whatever is typed, the list get_user_label_selection returns is not
\* empty and holds only labels of available_labels.
C18_SelectionValid ==
    \A k \in DOMAIN selections :
        /\ selections[k][2] # <<>>
        /\ Range(selections[k][2]) \subseteq Range(available_labels)

\* the listings of the same set of names in every order
ListingOrders(s) == {q \in DistinctSeqs(Range(s), Len(s)) : Len(q) = Len(s)}

\* C20: the ordered list depends on the set of names and on the reverse flag
\* only: every other listing order of the same names gives the same list.
C20_ListingOrderIrrelevant ==
    Ordered =>
        \A q \in ListingOrders(listing) : OrderedFiles(q, reverse_order) = sorted_files

\* C21: in create_tumor_growth_gif every frame pairs a CT file and a mask file
\* of the same name, and the frames are in ascending order of their step
\* numbers, whatever the two directories hold.
C21_PairedAscendingFrames ==
    /\ \A k \in DOMAIN rgb_frames : rgb_frames[k].ct_file = rgb_frames[k].mask_file
    /\ \A k \in DOMAIN rgb_frames : \A l \in DOMAIN rgb_frames :
           (/\ k < l
            /\ IsIntText(step_str(rgb_frames[k].ct_file))
            /\ IsIntText(step_str(rgb_frames[l].ct_file)))
               => rgb_frames[k].step_num < rgb_frames[l].step_num

\* C22: get_pancreas_z_bounds returns None exactly when no voxel has label 2;
\* otherwise it returns (z_min, z_max) with 0 <= z_min < z_max <= depth,
\* z_min = max(0, first pancreas slice - 5), z_max = min(depth, last pancreas
\* slice + 6), and every slice with pancreas lies in [z_min, z_max).
C22_PancreasBounds ==
    pc = "cropped" =>
        LET m == fn_args.mask_array
            depth == Len(m)
            withPancreas == {z \in 0..(depth - 1) :
                                \E y \in DOMAIN m[z + 1] : \E x \in DOMAIN m[z + 1][y] :
                                    m[z + 1][y][x] = 2}
            first == CHOOSE z \in withPancreas : \A u \in withPancreas : z <= u
            last == CHOOSE z \in withPancreas : \A u \in withPancreas : z >= u
        IN  /\ fn_ret.z_bounds = NoList <=> withPancreas = {}
            /\ withPancreas # {} =>
                   LET z_min == fn_ret.z_bounds[1][1]
                       z_max == fn_ret.z_bounds[1][2]
                   IN  /\ 0 <= z_min /\ z_min < z_max /\ z_max <= depth
                       /\ z_min = (IF first - 5 > 0 THEN first - 5 ELSE 0)
                       /\ z_max = (IF last + 6 < depth THEN last + 6 ELSE depth)
                       /\ \A z \in withPancreas : z_min <= z /\ z < z_max
                       /\ Len(fn_ret.mask_array) = z_max - z_min

\* a column of eight slices whose only pancreas voxel is in slice 6: the lower
\* bound is 1, the upper bound is cut to the depth
C22_Witness ==
    /\ pc = "cropped"
    /\ Len(fn_args.mask_array) = 8
    /\ fn_args.mask_array[7][1][1] = 2
    /\ fn_ret.z_bounds = Some(<<1, 8>>)

\* the number of voxels with label 1 in slice j (0-based) of m along the axis
TumorCount(m, axis, j) ==
    LET k == IF axis = 0 THEN 1 ELSE IF axis = 1 THEN 2 ELSE 3
    IN  Cardinality({c \in (1..Len(m)) \X (1..Len(m[1])) \X (1..Len(m[1][1])) :
                        c[k] = j + 1 /\ m[c[1]][c[2]][c[3]] = 1})

\* C23: find_largest_tumor_slice returns a valid slice index of the axis whose
\* count of voxels with label 1 is at least that of every other slice; on ties
\* it is the smallest such index, and 0 for a volume without tumor voxels.
C23_LargestTumorSlice ==
    pc = "sliced" =>
        LET m == fn_args.mask_array
            axis == fn_args.axis
            n == <<Len(m), Len(m[1]), Len(m[1][1])>>[axis + 1]
            idx == fn_ret.max_slice_idx
        IN  /\ idx \in 0..(n - 1)
            /\ \A j \in 0..(n - 1) : TumorCount(m, axis, j) <= TumorCount(m, axis, idx)
            /\ \A j \in 0..(idx - 1) : TumorCount(m, axis, j) < TumorCount(m, axis, idx)
            /\ (\A j \in 0..(n - 1) : TumorCount(m, axis, j) = 0) => idx = 0

\* three slices along z with 1, 2 and 2 tumor voxels: the first of the two
\* largest is returned
C23_Witness ==
    /\ pc = "sliced"
    /\ fn_args.axis = 0
    /\ Len(fn_args.mask_array) = 3
    /\ TumorCount(fn_args.mask_array, 0, 0) = 1
    /\ TumorCount(fn_args.mask_array, 0, 1) = 2
    /\ TumorCount(fn_args.mask_array, 0, 2) = 2
    /\ fn_ret.max_slice_idx = 1

\* C24: in the merged label volume a voxel is 0 if no segmentation file of the
\* directory is nonzero there; otherwise it carries the label of the last
\* entry of segmentation_map whose file exists and is nonzero at the voxel.
\* A file of the map that does not exist is skipped without error.
C24_LastFileWins ==
    pc = "merged" =>
        LET dir == fn_args.input_dir
            label == fn_ret.label_array
            Covering(z, y, x) ==
                {k \in DOMAIN segmentation_map :
                    /\ segmentation_map[k][1] \in DOMAIN dir
                    /\ dir[segmentation_map[k][1]][z][y][x] # 0}
            Last(K) == CHOOSE k \in K : \A l \in K : l <= k
        IN  /\ err = None
            /\ Range(fn_ret.seg_files_found)
                   = {segmentation_map[k][1] : k \in DOMAIN segmentation_map} \cap DOMAIN dir
            /\ \A z \in DOMAIN label : \A y \in DOMAIN label[z] : \A x \in DOMAIN label[z][y] :
                   label[z][y][x] = IF Covering(z, y, x) = {} THEN 0
                                    ELSE segmentation_map[Last(Covering(z, y, x))][2]

\* the lesion and the pancreas both cover the first voxel, every other file
\* of the map is missing: the voxel carries the label of the pancreas
C24_Witness ==
    /\ pc = "merged"
    /\ DOMAIN fn_args.input_dir = {SegName("pancreatic_pdac"), SegName("pancreas")}
    /\ fn_args.input_dir[SegName("pancreatic_pdac")][1][1][1] # 0
    /\ fn_args.input_dir[SegName("pancreas")][1][1][1] # 0
    /\ fn_ret.label_array[1][1][1] = 4
    /\ fn_ret.seg_files_found = <<SegName("pancreatic_pdac"), SegName("pancreas")>>

====
